---- MODULE Spec2Model ----
(***************************************************************************)
(* A model of app/central/central_crud.py: the publish sequence            *)
(* (create_odk_xform), the project operations (create_odk_project,         *)
(* delete_odk_project), list_submissions, the form transformer             *)
(* (generate_updated_xform), the form check (test_form_validity) and the   *)
(* submission converter (convert_csv).                                     *)
(*                                                                         *)
(* Strings are sequences of tokens; a token is a piece of text that is     *)
(* never split. Concatenation of strings is \o on the token sequences.     *)
(* The calls into osm_fieldwork and pyxform are external: every outcome    *)
(* they can have (a return value or an exception) is a choice with \E.     *)
(***************************************************************************)
EXTENDS Integers, Sequences

VARIABLES
    pc,          \* create_odk_xform: position of each running call
    args,        \* create_odk_xform: the arguments of the call
    createRes,   \* create_odk_xform: what xform.createForm returned
    publishRes,  \* create_odk_xform: what xform.publishForm returned
    ret,         \* create_odk_xform: the value returned to the caller
    err,         \* create_odk_xform: the exception that left the call
    calls,       \* create_odk_xform: the remote calls issued, in order
    staged,      \* create_odk_xform: the temp file was written by this call
    uploaded,    \* create_odk_xform: the file content uploadMedia read
    connected,   \* create_odk_xform: how get_odk_form ended in this call
    remote,      \* create_odk_xform: the form on the server, as the call sees it
    fs,          \* the files under /tmp/fmtm/odk
    fsBy,        \* for each temp file, the call that last wrote or deleted it
    proj,        \* create_odk_project: the last call and its outcome
    del,         \* delete_odk_project: the last call and its outcome
    subs,        \* list_submissions: the last call and its outcome
    xf,          \* generate_updated_xform: the files and the last call
    validity,    \* test_form_validity: the last call and its outcome
    csv          \* convert_csv: the records, the position and the two outputs

vars == <<pc, args, createRes, publishRes, ret, err, calls, staged, uploaded,
          connected, remote, fs, fsBy, proj, del, subs, xf, validity, csv>>

pubVars == <<pc, args, createRes, publishRes, ret, err, calls, staged, uploaded,
             connected, remote, fs, fsBy>>

\* what the publish sequence leaves alone
notPubVars == <<proj, del, subs, xf, validity, csv>>

----------------------------------------------------------------------------
(* Values shared by the operations *)

None == "None"

\* an optional value: <<>> when there is none, <<v>> when there is one
Nothing == <<>>

Some(v) == <<v>>

NoErr == [status |-> 0, detail |-> <<>>]

\* fastapi.HTTPException(status_code, detail)
HTTPException(status_code, detail) == [status |-> status_code, detail |-> detail]

\* str(e) of an exception raised by the external library
ExternalError == [status |-> -1, detail |-> <<"external error">>]

\* str(e): "<status_code>: <detail>" for an HTTPException, the message otherwise
StrOfStatus(s) == IF s = 500 THEN "500" ELSE IF s = 400 THEN "400" ELSE "?"

Str(e) ==
    IF e.status > 0 THEN <<StrOfStatus(e.status), ": ">> \o e.detail
    ELSE e.detail

GenericCentralMsg == "Error creating project on ODK Central: "

\* get_odk_project / get_odk_form / get_odk_app_user: the client object, or the
\* HTTPException raised when the constructor of the client raises
GetOdkClient(connects) ==
    IF connects
    THEN [ok |-> TRUE, err |-> NoErr]
    ELSE [ok |-> FALSE,
          err |-> HTTPException(500, <<GenericCentralMsg>> \o Str(ExternalError))]

----------------------------------------------------------------------------
(* create_odk_xform: the publish sequence *)

Procs == {"p1", "p2"}

\* the calls that run in the sequential specification
SeqProcs == {"p1"}

OdkIds == {"1", "2"}

Categories == {"buildings", "roads"}

GeoJsons == {"geo-a", "geo-b"}

\* status codes xform.createForm can return
CreateResults == {200, 409, 400, 401, 404, 500}

\* status codes xform.publishForm can return
PublishResults == {200, 404, 500}

Absent == "absent"

NoArgs ==
    [odk_id |-> None, xform_category |-> None, feature_geojson |-> None,
     create_draft |-> FALSE, convert_to_draft_when_publishing |-> TRUE]

\* a faulty path that leaves the deployment id out
GeojsonPath_NoId(odk_id, xform_category) ==
    <<"/tmp/fmtm/odk/", xform_category, ".geojson">>

\* Path(f"/tmp/fmtm/odk/{odk_id}/{xform_category}.geojson")
GeojsonPath(odk_id, xform_category) ==
    <<"/tmp/fmtm/odk/", odk_id, "/", xform_category, ".geojson">>

TmpPaths == {GeojsonPath(i, c) : i \in OdkIds, c \in Categories}

PathOf(p) == GeojsonPath(args[p].odk_id, args[p].xform_category)

\* a faulty test that treats 409 as an error: if result != 200: return result
ContinueAfterCreate_Only200(result) == result = 200

\* a faulty sequence that never returns early
ContinueAfterCreate_Always(result) == TRUE

\* if result != 200 and result != 409: return result
ContinueAfterCreate(result) == ~(result # 200 /\ result # 409)

\* a faulty handler that goes on to createForm without a client
AfterConnect_Continue(client) == "create"

\* try: xform = get_odk_form(odk_credentials)
\* except Exception: raise HTTPException(500, ...) from e
AfterConnect(client) == IF client.ok THEN "create" ELSE "raised"

\* a faulty sequence that uploads the media again after publishing
NextStep_UploadAgain(step) ==
    CASE step = "create" -> "stage"
      [] step = "stage" -> "attach"
      [] step = "attach" -> "cleanup"
      [] step = "cleanup" -> "publish"
      [] step = "publish" -> "attach"

\* the statements of create_odk_xform after get_odk_form, in program order:
\* where a step that returned normally hands over to
NextStep(step) ==
    CASE step = "create" -> "stage"
      [] step = "stage" -> "attach"
      [] step = "attach" -> "cleanup"
      [] step = "cleanup" -> "publish"
      [] step = "publish" -> "done"

\* the form on the server when create_odk_xform is called: not there yet, or
\* already published
RemoteForms == {"absent", "published"}

NoRemote == [before |-> None, now |-> None, atAttach |-> Nothing]

\* the form has a draft that accepts attachments
InDraft(f) == f \in {"draft", "published+draft"}

\* xform.createForm(odk_id, stem, path, create_draft) against the server: a new
\* form is created as a draft or published at once, and 200 returned; a form
\* that exists is left as it is, and 409 returned; any other status code
\* leaves the server as it was
CreateFormOutcomes(f, create_draft) ==
    (IF f = "absent"
     THEN {[result |-> 200, form |-> IF create_draft THEN "draft" ELSE "published"]}
     ELSE {[result |-> 409, form |-> f]})
    \cup {[result |-> r, form |-> f] : r \in CreateResults \ {200, 409}}

\* a faulty uploadMedia call that never asks for draft mode
ConvertToDraft_Never(f, convert_to_draft) == f

\* xform.uploadMedia(..., convert_to_draft_when_publishing): "This modifies an
\* existing published XForm to be in draft mode", when the flag is set
ConvertToDraft(f, convert_to_draft) ==
    IF convert_to_draft /\ f = "published" THEN "published+draft" ELSE f

\* xform.publishForm: the draft becomes the published version
PublishFormOn(f, result) == IF result = 200 /\ InDraft(f) THEN "published" ELSE f

\* the caller invokes create_odk_xform
PubCall(p) ==
    /\ pc[p] = "idle"
    /\ \E i \in OdkIds, c \in Categories, g \in GeoJsons, cd \in BOOLEAN, cv \in BOOLEAN :
          args' = [args EXCEPT ![p] =
                      [odk_id |-> i, xform_category |-> c, feature_geojson |-> g,
                       create_draft |-> cd, convert_to_draft_when_publishing |-> cv]]
    /\ \E f \in RemoteForms :
          remote' = [remote EXCEPT ![p] = [NoRemote EXCEPT !.before = f, !.now = f]]
    /\ pc' = [pc EXCEPT ![p] = "connect"]
    /\ createRes' = [createRes EXCEPT ![p] = Nothing]
    /\ publishRes' = [publishRes EXCEPT ![p] = Nothing]
    /\ ret' = [ret EXCEPT ![p] = Nothing]
    /\ err' = [err EXCEPT ![p] = NoErr]
    /\ calls' = [calls EXCEPT ![p] = <<>>]
    /\ staged' = [staged EXCEPT ![p] = FALSE]
    /\ uploaded' = [uploaded EXCEPT ![p] = None]
    /\ connected' = [connected EXCEPT ![p] = "no"]
    /\ UNCHANGED <<fs, fsBy, notPubVars>>

\* try: xform = get_odk_form(odk_credentials); except: raise HTTPException(500, ...)
PubConnect(p) ==
    /\ pc[p] = "connect"
    /\ \E connects \in BOOLEAN :
          LET form == GetOdkClient(connects) IN
          /\ pc' = [pc EXCEPT ![p] = AfterConnect(form)]
          /\ connected' = [connected EXCEPT ![p] = IF form.ok THEN "ok" ELSE "failed"]
          /\ IF form.ok
             THEN UNCHANGED err
             ELSE err' = [err EXCEPT ![p] =
                            HTTPException(500, <<"Connection failed to odk central">>)]
    /\ UNCHANGED <<args, createRes, publishRes, ret, calls, staged, uploaded,
                   remote, fs, fsBy, notPubVars>>

\* result = xform.createForm(...); if result != 200 and result != 409: return result
PubCreateForm(p) ==
    /\ pc[p] = "create"
    /\ calls' = [calls EXCEPT ![p] = Append(@, "createForm")]
    /\ \/ \E o \in CreateFormOutcomes(remote[p].now, args[p].create_draft) :
             /\ createRes' = [createRes EXCEPT ![p] = Some(o.result)]
             /\ remote' = [remote EXCEPT ![p].now = o.form]
             /\ IF ContinueAfterCreate(o.result)
                THEN /\ pc' = [pc EXCEPT ![p] = NextStep("create")]
                     /\ UNCHANGED ret
                ELSE /\ pc' = [pc EXCEPT ![p] = "done"]
                     /\ ret' = [ret EXCEPT ![p] = Some(o.result)]
             /\ UNCHANGED err
       \/ /\ pc' = [pc EXCEPT ![p] = "raised"]
          /\ err' = [err EXCEPT ![p] = ExternalError]
          /\ UNCHANGED <<createRes, ret, remote>>
    /\ UNCHANGED <<args, publishRes, staged, uploaded, connected, fs, fsBy, notPubVars>>

\* the call a temp file was last written or deleted by
TouchedBy(p) ==
    Some([odk_id |-> args[p].odk_id, xform_category |-> args[p].xform_category])

\* mkdir(parents=True, exist_ok=True); open(geojson_path, "w").write(...)
PubStageGeodata(p) ==
    /\ pc[p] = "stage"
    /\ fs' = [fs EXCEPT ![PathOf(p)] = args[p].feature_geojson]
    /\ fsBy' = [fsBy EXCEPT ![PathOf(p)] = TouchedBy(p)]
    /\ staged' = [staged EXCEPT ![p] = TRUE]
    /\ pc' = [pc EXCEPT ![p] = NextStep("stage")]
    /\ UNCHANGED <<args, createRes, publishRes, ret, err, calls, uploaded,
                   connected, remote, notPubVars>>

\* xform.uploadMedia(odk_id, stem, str(geojson_path), convert_to_draft_when_publishing)
\* asks for draft mode if the flag is set, reads the staged file and uploads
\* it; an exception it raises leaves create_odk_xform at once
PubAttachMedia(p) ==
    /\ pc[p] = "attach"
    /\ calls' = [calls EXCEPT ![p] = Append(@, "uploadMedia")]
    /\ LET drafted == ConvertToDraft(remote[p].now,
                                     args[p].convert_to_draft_when_publishing)
       IN  \/ /\ fs[PathOf(p)] # Absent
              /\ uploaded' = [uploaded EXCEPT ![p] = fs[PathOf(p)]]
              /\ remote' = [remote EXCEPT ![p].now = drafted,
                                          ![p].atAttach = Some(InDraft(drafted))]
              /\ pc' = [pc EXCEPT ![p] = NextStep("attach")]
              /\ UNCHANGED err
           \/ /\ pc' = [pc EXCEPT ![p] = "raised"]
              /\ err' = [err EXCEPT ![p] = ExternalError]
              /\ \E f \in {remote[p].now, drafted} :
                    remote' = [remote EXCEPT ![p].now = f]
              /\ UNCHANGED uploaded
    /\ UNCHANGED <<args, createRes, publishRes, ret, staged, connected, fs, fsBy,
                   notPubVars>>

\* geojson_path.unlink(missing_ok=True)
PubCleanup(p) ==
    /\ pc[p] = "cleanup"
    /\ fs' = [fs EXCEPT ![PathOf(p)] = Absent]
    /\ fsBy' = [fsBy EXCEPT ![PathOf(p)] = TouchedBy(p)]
    /\ pc' = [pc EXCEPT ![p] = NextStep("cleanup")]
    /\ UNCHANGED <<args, createRes, publishRes, ret, err, calls, staged, uploaded,
                   connected, remote, notPubVars>>

\* result = xform.publishForm(odk_id, xform_path.stem); return result
PubPublish(p) ==
    /\ pc[p] = "publish"
    /\ calls' = [calls EXCEPT ![p] = Append(@, "publishForm")]
    /\ \/ \E result \in PublishResults :
             /\ publishRes' = [publishRes EXCEPT ![p] = Some(result)]
             /\ ret' = [ret EXCEPT ![p] = Some(result)]
             /\ remote' = [remote EXCEPT ![p].now = PublishFormOn(@, result)]
             /\ pc' = [pc EXCEPT ![p] = NextStep("publish")]
             /\ UNCHANGED err
       \/ /\ pc' = [pc EXCEPT ![p] = "raised"]
          /\ err' = [err EXCEPT ![p] = ExternalError]
          /\ UNCHANGED <<publishRes, ret, remote>>
    /\ UNCHANGED <<args, createRes, staged, uploaded, connected, fs, fsBy, notPubVars>>

\* the call has ended (returned or raised); the caller may call again
PubEnd(p) ==
    /\ pc[p] \in {"done", "raised"}
    /\ pc' = [pc EXCEPT ![p] = "idle"]
    /\ args' = [args EXCEPT ![p] = NoArgs]
    /\ createRes' = [createRes EXCEPT ![p] = Nothing]
    /\ publishRes' = [publishRes EXCEPT ![p] = Nothing]
    /\ ret' = [ret EXCEPT ![p] = Nothing]
    /\ err' = [err EXCEPT ![p] = NoErr]
    /\ calls' = [calls EXCEPT ![p] = <<>>]
    /\ staged' = [staged EXCEPT ![p] = FALSE]
    /\ uploaded' = [uploaded EXCEPT ![p] = None]
    /\ connected' = [connected EXCEPT ![p] = "no"]
    /\ remote' = [remote EXCEPT ![p] = NoRemote]
    /\ UNCHANGED <<fs, fsBy, notPubVars>>

PubInit ==
    /\ pc = [p \in Procs |-> "idle"]
    /\ args = [p \in Procs |-> NoArgs]
    /\ createRes = [p \in Procs |-> Nothing]
    /\ publishRes = [p \in Procs |-> Nothing]
    /\ ret = [p \in Procs |-> Nothing]
    /\ err = [p \in Procs |-> NoErr]
    /\ calls = [p \in Procs |-> <<>>]
    /\ staged = [p \in Procs |-> FALSE]
    /\ uploaded = [p \in Procs |-> None]
    /\ connected = [p \in Procs |-> "no"]
    /\ remote = [p \in Procs |-> NoRemote]
    /\ fs = [f \in TmpPaths |-> Absent]
    /\ fsBy = [f \in TmpPaths |-> Nothing]

----------------------------------------------------------------------------
(* create_odk_project and delete_odk_project *)

\* caller-supplied project names: the empty name, plain names, and names that
\* already start with the prefix
NameTokens == {"FMTM ", "x"}

MaxNameLen == 2

Names == UNION {[1..n -> NameTokens] : n \in 0..MaxNameLen}

\* what project.createProject can return: the project as a dict, an error body
\* as a dict with a code, or a list
CreateProjectResponses ==
    {[type |-> "dict", code |-> "401.2"],
     [type |-> "dict", code |-> "409.3"],
     [type |-> "dict", code |-> None],
     [type |-> "list", code |-> None]}

AuthFailedMsg == "Could not authenticate to odk central."

\* a faulty call that sends the name as given
ProjectName_Bare(name) == name

\* f"FMTM {name}"
ProjectName(name) == <<"FMTM ">> \o name

\* if isinstance(result, dict): if result.get("code") == 401.2
IsAuthFailed(result) == result.type = "dict" /\ result.code = "401.2"

\* the try block of create_odk_project: what it returns or raises, given what
\* project.createProject did. The HTTPException raised inside the try block is
\* an Exception, so the except clause catches it too.
CreateProjectTry(raises, result) ==
    LET inner == IF raises THEN Some(ExternalError)
                 ELSE IF IsAuthFailed(result)
                      THEN Some(HTTPException(500, <<AuthFailedMsg>>))
                      ELSE Nothing
    IN  IF inner # Nothing
        THEN [ret |-> Nothing,
              err |-> HTTPException(500, <<GenericCentralMsg>> \o Str(inner[1]))]
        ELSE [ret |-> Some(result), err |-> NoErr]

NoProj ==
    [called |-> FALSE, name |-> <<>>, connects |-> FALSE, raises |-> FALSE,
     response |-> Nothing, sent |-> Nothing, ret |-> Nothing, err |-> NoErr]

\* create_odk_project(name, odk_central)
CreateOdkProject ==
    \E name \in Names, connects \in BOOLEAN, raises \in BOOLEAN,
       result \in CreateProjectResponses :
        LET project == GetOdkClient(connects)
            out == CreateProjectTry(raises, result)
        IN  /\ proj' =
                 IF ~project.ok
                 THEN [called |-> TRUE, name |-> name, connects |-> FALSE,
                       raises |-> FALSE, response |-> Nothing, sent |-> Nothing,
                       ret |-> Nothing, err |-> project.err]
                 ELSE [called |-> TRUE, name |-> name, connects |-> TRUE,
                       raises |-> raises,
                       response |-> IF raises THEN Nothing ELSE Some(result),
                       sent |-> Some(ProjectName(name)),
                       ret |-> out.ret, err |-> out.err]
            /\ UNCHANGED <<pubVars, del, subs, xf, validity, csv>>

ProjectIds == {"1", "2"}

\* what project.deleteProject can return
DeleteResults == {"deleted", "not found"}

SoftDeleteFailure == "Could not delete project from central odk"

\* a faulty delete_odk_project with get_odk_project before the try block, as in
\* the other operations: its HTTPException reaches the caller
DeleteProjectTry_ConnectOutside(connects, raises, result) ==
    IF ~GetOdkClient(connects).ok THEN [raised |-> TRUE, ret |-> Nothing]
    ELSE IF raises THEN [raised |-> FALSE, ret |-> Some(SoftDeleteFailure)]
    ELSE [raised |-> FALSE, ret |-> Some(result)]

\* the try block of delete_odk_project holds both get_odk_project and
\* project.deleteProject; except Exception returns the soft-failure string
DeleteProjectTry(connects, raises, result) ==
    IF ~GetOdkClient(connects).ok THEN [raised |-> FALSE, ret |-> Some(SoftDeleteFailure)]
    ELSE IF raises THEN [raised |-> FALSE, ret |-> Some(SoftDeleteFailure)]
    ELSE [raised |-> FALSE, ret |-> Some(result)]

NoDel ==
    [called |-> FALSE, project_id |-> None, connects |-> FALSE, raises |-> FALSE,
     result |-> None, raised |-> FALSE, ret |-> Nothing]

\* delete_odk_project(project_id, odk_central)
DeleteOdkProject ==
    \E project_id \in ProjectIds, connects \in BOOLEAN, raises \in BOOLEAN,
       result \in DeleteResults :
        LET out == DeleteProjectTry(connects, raises, result)
        IN  /\ del' = [called |-> TRUE, project_id |-> project_id,
                       connects |-> connects, raises |-> connects /\ raises,
                       result |-> IF connects /\ ~raises THEN result ELSE None,
                       raised |-> out.raised, ret |-> out.ret]
            /\ UNCHANGED <<pubVars, proj, subs, xf, validity, csv>>

----------------------------------------------------------------------------
(* list_submissions *)

DisplayNames == {"alice", "bob"}

SubmissionIds == {"s1", "s2"}

MaxUsers == 2

MaxSubs == 2

SeqsUpTo(S, n) == UNION {[1..k -> S] : k \in 0..n}

\* a faulty inner loop that drops a submission already in the result
RECURSIVE AppendEach_SkipSeen(_, _)
AppendEach_SkipSeen(submissions, listed) ==
    IF listed = <<>> THEN submissions
    ELSE AppendEach_SkipSeen(
             IF \E k \in 1..Len(submissions) : submissions[k] = Head(listed)
             THEN submissions ELSE Append(submissions, Head(listed)),
             Tail(listed))

\* for subm in xform.listSubmissions(project_id, user["displayName"]):
\*     submissions.append(subm)
RECURSIVE AppendEach(_, _)
AppendEach(submissions, listed) ==
    IF listed = <<>> THEN submissions
    ELSE AppendEach(Append(submissions, Head(listed)), Tail(listed))

\* for user in project.listAppUsers(project_id): ...
RECURSIVE ForEachUser(_, _, _)
ForEachUser(submissions, users, listSubmissions) ==
    IF users = <<>> THEN submissions
    ELSE ForEachUser(
             AppendEach(submissions, listSubmissions[Head(users).displayName]),
             Tail(users), listSubmissions)

NoSubs ==
    [called |-> FALSE, connects |-> FALSE, users |-> <<>>,
     listSubmissions |-> [n \in DisplayNames |-> <<>>],
     ret |-> Nothing, err |-> NoErr]

\* the server's data: the app users of the project, in the order listAppUsers
\* enumerates them, and each form's submissions, in the order listSubmissions
\* returns them
SubsInit ==
    \E users \in SeqsUpTo([displayName : DisplayNames], MaxUsers),
       listSubmissions \in [DisplayNames -> SeqsUpTo(SubmissionIds, MaxSubs)] :
        subs = [NoSubs EXCEPT !.users = users, !.listSubmissions = listSubmissions]

\* list_submissions(project_id, odk_central)
ListSubmissions ==
    \E projectConnects \in BOOLEAN, formConnects \in BOOLEAN :
        LET project == GetOdkClient(projectConnects)
            xform == GetOdkClient(formConnects)
        IN  /\ subs' =
                 IF ~project.ok \/ ~xform.ok
                 THEN [subs EXCEPT !.called = TRUE, !.connects = FALSE,
                                   !.ret = Nothing,
                                   !.err = IF ~project.ok THEN project.err ELSE xform.err]
                 ELSE [subs EXCEPT !.called = TRUE, !.connects = TRUE,
                                   !.ret = Some(ForEachUser(<<>>, subs.users,
                                                            subs.listSubmissions)),
                                   !.err = NoErr]
            /\ UNCHANGED <<pubVars, proj, del, xf, validity, csv>>

----------------------------------------------------------------------------
(* generate_updated_xform: the form transformer *)

\* A file is absent, empty, an XLSForm spreadsheet, or XML text. XML text is
\* its element tree together with the way it is written down: "authored" (an
\* XML declaration, the author's namespace prefixes) or "etree" (what
\* ElementTree.tostring writes: no declaration, prefixes ns0, ns1, ...).
\*
\* The tree keeps what the code reads: whether the root has an h:head child,
\* whether that has an xforms:model child, and the children of the model. A
\* child of the model is an xforms:instance or another element (a bind); an
\* instance has an optional src attribute and xforms:data children, each with
\* an optional id attribute.

AbsentFile == [kind |-> "absent"]

EmptyFile == [kind |-> "empty"]

XlsForm == [kind |-> "xlsform"]

XmlText(form, tree) == [kind |-> "xml", form |-> form, tree |-> tree]

GeojsonSuffix == <<".", "geojson">>

\* src attributes of the forms: a geojson extract, a csv extract, and a name
\* that holds ".geojson" without ending in it
SrcValues ==
    {<<"jr://file/", "x">> \o GeojsonSuffix,
     <<"jr://file-csv/", "x", ".", "csv">>,
     <<"x">> \o GeojsonSuffix \o <<".", "zip">>}

\* the data children an instance can have
DataLists ==
    {<<>>,
     <<[id |-> Nothing]>>,
     <<[id |-> Some("data")]>>,
     <<[id |-> Some("data")], [id |-> Some("old")]>>}

InstanceElements ==
    [tag : {"instance"}, src : {Nothing} \cup {Some(v) : v \in SrcValues},
     datas : DataLists]

BindElement == [tag |-> "bind", src |-> Nothing, datas |-> <<>>]

MaxModelChildren == 2

Trees ==
    {[head |-> FALSE, model |-> FALSE, kids |-> <<>>],
     [head |-> TRUE, model |-> FALSE, kids |-> <<>>]}
    \cup {[head |-> TRUE, model |-> TRUE, kids |-> k] :
            k \in SeqsUpTo(InstanceElements \cup {BindElement}, MaxModelChildren)}

XmlTexts == {XmlText(f, t) : f \in {"authored", "etree"}, t \in Trees}

Extensions == {"xml", "xls", "xlsx"}

Stems == {"form-42", "data"}

XfCategories == {<<"buildings">>, <<"roads">>}

\* src_value.endswith(".geojson")
EndsWith(s, suffix) ==
    /\ Len(s) >= Len(suffix)
    /\ SubSeq(s, Len(s) - Len(suffix) + 1, Len(s)) = suffix

\* ElementTree.fromstring(data): the tree; the declaration and the spelling of
\* the prefixes are not part of it. Text that is not XML raises ParseError.
Parses(data) == data.kind = "xml"

FromString(data) == data.tree

\* ElementTree.tostring(root)
ToString(root) == XmlText("etree", root)

\* "if head:" and "if model:" test an Element, which is true when it has children
ElementTruthy(nChildren) == nChildren > 0

\* the instances the loop visits: model.findall("xforms:instance") when head and
\* model were found and are true
InstancesFound(root) ==
    /\ root.head
    /\ ElementTruthy(IF root.model THEN 1 ELSE 0)
    /\ root.model
    /\ ElementTruthy(Len(root.kids))

\* if "src" in inst.attrib: if src_value.endswith(".geojson"): inst.attrib["src"] = ...
RewriteSrc(inst, form_category) ==
    IF inst.src # Nothing /\ EndsWith(inst.src[1], GeojsonSuffix)
    THEN [inst EXCEPT !.src = Some(<<"jr://file/">> \o form_category \o GeojsonSuffix)]
    ELSE inst

\* a faulty rewrite that sets the id of data_tags[0] only
RewriteDataIds_FirstOnly(inst, stem) ==
    [inst EXCEPT !.datas =
        [k \in DOMAIN inst.datas |->
            IF inst.datas[k].id # Nothing /\ k = 1
            THEN [id |-> Some(stem)] ELSE inst.datas[k]]]

\* for dt in data_tags: if "id" in dt.attrib: dt.attrib["id"] = str(xform_path.stem)
RewriteDataIds(inst, stem) ==
    [inst EXCEPT !.datas =
        [k \in DOMAIN inst.datas |->
            IF inst.datas[k].id # Nothing THEN [id |-> Some(stem)] ELSE inst.datas[k]]]

\* the index of the first instance with a geojson src, 0 when there is none
FirstGeojson(kids) ==
    LET hits == {i \in DOMAIN kids :
                    /\ kids[i].tag = "instance"
                    /\ kids[i].src # Nothing
                    /\ EndsWith(kids[i].src[1], GeojsonSuffix)}
    IN  IF hits = {} THEN 0 ELSE CHOOSE i \in hits : \A j \in hits : i <= j

\* a faulty loop that rewrites the src of the first geojson instance only
RewriteBindings_FirstSrcOnly(root, stem, form_category) ==
    IF InstancesFound(root)
    THEN [root EXCEPT !.kids =
            [i \in DOMAIN root.kids |->
                IF root.kids[i].tag = "instance"
                THEN RewriteDataIds(
                        IF i = FirstGeojson(root.kids)
                        THEN RewriteSrc(root.kids[i], form_category)
                        ELSE root.kids[i], stem)
                ELSE root.kids[i]]]
    ELSE root

\* for inst in instances: rewrite its src, then the ids of its data children
RewriteBindings(root, stem, form_category) ==
    IF InstancesFound(root)
    THEN [root EXCEPT !.kids =
            [i \in DOMAIN root.kids |->
                IF root.kids[i].tag = "instance"
                THEN RewriteDataIds(RewriteSrc(root.kids[i], form_category), stem)
                ELSE root.kids[i]]]
    ELSE root

\* what xls2xform_convert can do with a spreadsheet: raise, or write the output
\* file, which may be empty
ConvertOutcomes ==
    {[kind |-> "raise", out |-> AbsentFile], [kind |-> "ok", out |-> EmptyFile]}
    \cup {[kind |-> "ok", out |-> x] : x \in XmlTexts}

\* xls2xform_convert(xlsform_path=input_path, ...): a file that is no
\* spreadsheet makes it raise
Xls2XformConvert(input) ==
    IF input.kind = "xlsform" THEN ConvertOutcomes
    ELSE {[kind |-> "raise", out |-> AbsentFile]}

NoConvert == [kind |-> "none", out |-> AbsentFile]

\* a faulty test, st_size < 0, that no file satisfies
IsEmptyOutput_StrictlyNegative(file) == FALSE

\* if xform_path.stat().st_size <= 0
IsEmptyOutput(file) == file.kind = "empty"

NeedsConversion(form_file_extension) == form_file_extension # "xml"

\* the validate argument of the xls2xform_convert call in generate_updated_xform
PublishPathValidate == FALSE

ParseError == [status |-> -1, detail |-> <<"ParseError">>]

FileNotFoundError == [status |-> -1, detail |-> <<"FileNotFoundError">>]

\* the part of generate_updated_xform from the parse to the return: the binding
\* rewrite and the write-back of the output file
RewriteAndWrite(run, data, stem, form_category) ==
    IF data.kind = "absent"
    THEN [run EXCEPT !.err = FileNotFoundError]
    ELSE IF ~Parses(data)
    THEN [run EXCEPT !.read = data, !.err = ParseError]
    ELSE [run EXCEPT !.read = data, !.rewrote = TRUE, !.wrote = TRUE,
                     !.file = ToString(RewriteBindings(FromString(data), stem,
                                                       form_category)),
                     !.ret = Some("xform_path")]

NoRun ==
    [input_path |-> None, ext |-> None, converted |-> FALSE, conv |-> NoConvert,
     read |-> AbsentFile, rewrote |-> FALSE, wrote |-> FALSE,
     validate |-> Nothing, before |-> AbsentFile, file |-> AbsentFile,
     ret |-> Nothing, err |-> NoErr]

\* generate_updated_xform(input_path, xform_path, form_file_extension,
\* form_category): the run, given the file at input_path, the file at xform_path
\* and what the conversion does if it is called
GenerateUpdatedXform(input_path, input, before, ext, stem, form_category, conv) ==
    LET start == [NoRun EXCEPT !.input_path = input_path, !.ext = ext,
                               !.before = before, !.file = before]
    IN  IF NeedsConversion(ext)
        THEN LET called == [start EXCEPT !.converted = TRUE, !.conv = conv,
                                         !.validate = Some(PublishPathValidate)]
             IN
             IF conv.kind = "raise"
             THEN [called EXCEPT !.err =
                      HTTPException(400, <<"Couldn't convert ", input_path,
                                           " to an XForm!">>)]
             ELSE LET written == [called EXCEPT !.file = conv.out] IN
                  IF IsEmptyOutput(conv.out)
                  THEN [written EXCEPT !.err =
                           HTTPException(400, <<"xform_path", " is empty!">>)]
                  ELSE RewriteAndWrite(written, conv.out, stem, form_category)
        ELSE RewriteAndWrite(start, input, stem, form_category)

NoXf ==
    [input |-> AbsentFile, ext |-> "xml", stem |-> "form-42",
     category |-> <<"buildings">>, runs |-> 0, byRun |-> FALSE, last |-> NoRun]

\* the arguments of the call and the file at input_path
XfInit ==
    \E input \in XmlTexts \cup {EmptyFile, XlsForm}, ext \in Extensions,
       stem \in Stems, category \in XfCategories :
        /\ ext # "xml" => input = XlsForm
        /\ xf = [NoXf EXCEPT !.input = input, !.ext = ext, !.stem = stem,
                             !.category = category]

\* the caller runs generate_updated_xform on the uploaded form
XfGenerate ==
    /\ xf.runs = 0
    /\ \E conv \in Xls2XformConvert(xf.input) :
          /\ xf' = [xf EXCEPT
                      !.runs = 1,
                      !.last = GenerateUpdatedXform("input_path", xf.input,
                                  AbsentFile, xf.ext, xf.stem, xf.category, conv)]
    /\ UNCHANGED <<pubVars, proj, del, subs, validity, csv>>

\* generate_updated_xform runs again with the same xform_path and category, on
\* the XML file it wrote: input_path is xform_path and the extension is "xml"
XfGenerateAgain ==
    /\ xf.runs > 0
    /\ xf.last.file.kind # "absent"
    /\ xf' = [xf EXCEPT
                !.runs = 2,
                !.byRun = xf.last.wrote,
                !.last = GenerateUpdatedXform("xform_path", xf.last.file,
                            xf.last.file, "xml", xf.stem, xf.category, NoConvert)]
    /\ UNCHANGED <<pubVars, proj, del, subs, validity, csv>>

----------------------------------------------------------------------------
(* test_form_validity: the ad-hoc check of an uploaded form *)

\* the validate argument of the xls2xform_convert call in test_form_validity
ValidityPathValidate == FALSE

FormTypes == {"xls", "xlsx"}

\* s.split(sep), on tokens: the parts between the separators
RECURSIVE Split(_, _)
Split(s, sep) ==
    IF s = <<>> THEN << <<>> >>
    ELSE LET rest == Split(Tail(s), sep) IN
         IF Head(s) = sep
         THEN << <<>> >> \o rest
         ELSE << <<Head(s)>> \o rest[1] >> \o Tail(rest)

\* the tokens that end with "/"
SlashTokens == {"jr://file/", "jr://file-csv/"}

\* part.split("/")[-1]: what follows the last "/"
RECURSIVE LastSlashPart(_)
LastSlashPart(part) ==
    IF part = <<>> THEN <<>>
    ELSE IF \E k \in DOMAIN part : part[k] \in SlashTokens
    THEN LastSlashPart(Tail(part))
    ELSE part

\* root.findall(".//xforms:instance[@src]"): the instances with a src
\* attribute, in document order
InstancesWithSrc(root) ==
    SelectSeq(root.kids, LAMBDA e : e.tag = "instance" /\ e.src # Nothing)

\* the loop over the instances: the name of each src whose second dot-part is
\* "geojson"; a src without a dot raises IndexError, which is skipped
RECURSIVE GeojsonList(_)
GeojsonList(instances) ==
    IF instances = <<>> THEN <<>>
    ELSE LET parts == Split(Head(instances).src[1], ".")
             rest == GeojsonList(Tail(instances))
         IN  IF Len(parts) >= 2 /\ parts[2] = <<"geojson">>
             THEN <<LastSlashPart(parts[1])>> \o rest
             ELSE rest

NoValidity ==
    [called |-> FALSE, form_type |-> None, validate |-> Nothing,
     conv |-> NoConvert, status |-> 0, media |-> <<>>, message |-> None]

\* test_form_validity(xform_content, form_type): every exception in the body
\* becomes the 400 response
TestFormValidityResult(form_type, conv) ==
    LET called == [NoValidity EXCEPT !.called = TRUE, !.form_type = form_type,
                                     !.validate = Some(ValidityPathValidate),
                                     !.conv = conv]
        invalid == [called EXCEPT !.status = 400, !.message = "Your form is invalid"]
    IN  IF conv.kind = "raise" THEN invalid
        ELSE IF ~Parses(conv.out) THEN invalid
        ELSE [called EXCEPT
                !.status = 200,
                !.media = GeojsonList(InstancesWithSrc(FromString(conv.out))),
                !.message = "Your form is valid"]

\* the route handler runs test_form_validity on an uploaded file
TestFormValidity ==
    /\ ~validity.called
    /\ \E xform_content \in {XlsForm, EmptyFile}, form_type \in FormTypes :
          \E conv \in Xls2XformConvert(xform_content) :
              validity' = TestFormValidityResult(form_type, conv)
    /\ UNCHANGED <<pubVars, proj, del, subs, xf, csv>>

----------------------------------------------------------------------------
(* convert_csv: the submission converter *)

\* what a submission record holds: tags and a position, tags without a
\* position, no tags (private or reference fields only), nothing at all
RecordKinds == {"populated", "nogeom", "untagged", "blank"}

MaxRecords == 3

\* len(data): 0, 1, or more
DataSizes == {"empty", "one", "many"}

\* the batches csvin.parse can return for data of a size; one byte of data
\* holds no record with a field in it
Batches(size) ==
    IF size = "one"
    THEN SeqsUpTo({"blank"}, MaxRecords)
    ELSE SeqsUpTo(RecordKinds, MaxRecords)

\* feature = csvin.createEntry(entry): the keys of the feature. CSVDump sets
\* "attrs" and "tags" only when the record has tags, and "lat" in attrs only
\* when the record has a position
CreateEntry(kind) ==
    CASE kind = "populated" -> [len |-> 2, tags |-> TRUE, lat |-> TRUE]
      [] kind = "nogeom" -> [len |-> 2, tags |-> TRUE, lat |-> FALSE]
      [] kind = "untagged" -> [len |-> 1, tags |-> FALSE, lat |-> FALSE]
      [] kind = "blank" -> [len |-> 0, tags |-> FALSE, lat |-> FALSE]

\* the body of the loop for one entry: "skip" (continue, or nothing to do),
\* "warn" (Bad record!), "debug" (import epdb; epdb.st() before the writes) or
\* "write" (writeOSM and writeGeoJson)
EntryStep(size, feature) ==
    IF size = "one" THEN "skip"
    ELSE IF ~(feature.len > 0) THEN "skip"
    ELSE IF ~feature.tags THEN "warn"
    ELSE IF ~feature.lat THEN "debug"
    ELSE "write"

NoCsv ==
    [data |-> "empty", batch |-> <<>>, pc |-> "start", i |-> 0,
     osm |-> <<>>, geojson |-> <<>>, ret |-> Nothing, err |-> NoErr]

\* the arguments of the call: the size of data, and the records that the CSV
\* (in data, or in the file at filespec when data is empty) holds
CsvInit ==
    \E size \in DataSizes :
        \E batch \in Batches(size) :
            csv = [NoCsv EXCEPT !.data = size, !.batch = batch]

\* createOSM, createGeoJson, and the test of len(data): with no data the file
\* is parsed into data and nothing is done with the records; with data the
\* loop over the parsed records starts
CsvOpen ==
    /\ csv.pc = "start"
    /\ csv' = IF csv.data = "empty"
              THEN [csv EXCEPT !.pc = "finish", !.i = Len(csv.batch)]
              ELSE [csv EXCEPT !.pc = "loop"]
    /\ UNCHANGED <<pubVars, proj, del, subs, xf, validity>>

\* one turn of the loop: for entry in csvdata
CsvEntry ==
    /\ csv.pc = "loop"
    /\ csv.i < Len(csv.batch)
    /\ LET k == csv.i + 1
           step == EntryStep(csv.data, CreateEntry(csv.batch[k]))
           written == [csv EXCEPT !.i = k, !.osm = Append(@, k),
                                  !.geojson = Append(@, k)]
       IN  \/ /\ step \in {"skip", "warn"}
              /\ csv' = [csv EXCEPT !.i = k]
           \/ /\ step = "write"
              /\ csv' = written
           \/ /\ step = "debug"
              /\ \/ csv' = [csv EXCEPT !.pc = "raised", !.err = ExternalError]
                 \/ csv' = written
    /\ UNCHANGED <<pubVars, proj, del, subs, xf, validity>>

\* csvin.finishOSM(); csvin.finishGeoJson(); return True
CsvFinish ==
    /\ \/ csv.pc = "finish"
       \/ csv.pc = "loop" /\ csv.i = Len(csv.batch)
    /\ csv' = [csv EXCEPT !.pc = "returned", !.ret = Some(TRUE)]
    /\ UNCHANGED <<pubVars, proj, del, subs, xf, validity>>

----------------------------------------------------------------------------
(* The specifications: one per component, the others at rest *)

Init ==
    /\ PubInit
    /\ proj = NoProj
    /\ del = NoDel
    /\ subs = NoSubs
    /\ xf = NoXf
    /\ validity = NoValidity
    /\ csv = NoCsv

\* one publish sequence at a time
NextPublish ==
    \/ \E p \in SeqProcs : PubCall(p)
    \/ \E p \in SeqProcs : PubConnect(p)
    \/ \E p \in SeqProcs : PubCreateForm(p)
    \/ \E p \in SeqProcs : PubStageGeodata(p)
    \/ \E p \in SeqProcs : PubAttachMedia(p)
    \/ \E p \in SeqProcs : PubCleanup(p)
    \/ \E p \in SeqProcs : PubPublish(p)
    \/ \E p \in SeqProcs : PubEnd(p)

SpecPublish == Init /\ [][NextPublish]_vars

NextProject == CreateOdkProject \/ DeleteOdkProject

SpecProject == Init /\ [][NextProject]_vars

InitSubmissions ==
    /\ PubInit
    /\ proj = NoProj
    /\ del = NoDel
    /\ SubsInit
    /\ xf = NoXf
    /\ validity = NoValidity
    /\ csv = NoCsv

NextSubmissions == ListSubmissions

SpecSubmissions == InitSubmissions /\ [][NextSubmissions]_vars

InitXform ==
    /\ PubInit
    /\ proj = NoProj
    /\ del = NoDel
    /\ subs = NoSubs
    /\ XfInit
    /\ validity = NoValidity
    /\ csv = NoCsv

NextXform == XfGenerate \/ XfGenerateAgain

SpecXform == InitXform /\ [][NextXform]_vars

\* the two callers of xls2xform_convert, on an uploaded spreadsheet: one call of
\* either in a behaviour
InitConvert == InitXform /\ NeedsConversion(xf.ext)

NextConvert ==
    \/ ~validity.called /\ XfGenerate
    \/ xf.runs = 0 /\ TestFormValidity

SpecConvert == InitConvert /\ [][NextConvert]_vars

InitCsv ==
    /\ PubInit
    /\ proj = NoProj
    /\ del = NoDel
    /\ subs = NoSubs
    /\ xf = NoXf
    /\ validity = NoValidity
    /\ CsvInit

NextCsv == CsvOpen \/ CsvEntry \/ CsvFinish

SpecCsv == InitCsv /\ [][NextCsv]_vars

\* two publish sequences at once, one call each
NextConcurrent ==
    \/ \E p \in Procs : PubCall(p)
    \/ \E p \in Procs : PubConnect(p)
    \/ \E p \in Procs : PubCreateForm(p)
    \/ \E p \in Procs : PubStageGeodata(p)
    \/ \E p \in Procs : PubAttachMedia(p)
    \/ \E p \in Procs : PubCleanup(p)
    \/ \E p \in Procs : PubPublish(p)

SpecConcurrent == Init /\ [][NextConcurrent]_vars

----------------------------------------------------------------------------
(* Properties of the publish sequence, under SpecPublish *)

\* C1: if createForm returns a result other than 200 or 409, the call ends at
\* once: the temp file is not written, uploadMedia and publishForm are not
\* called, and the caller gets exactly the createForm result.
C1_ShortCircuit ==
    \A p \in Procs :
        (createRes[p] # Nothing /\ createRes[p][1] \notin {200, 409}) =>
            /\ pc[p] = "done"
            /\ ret[p] = createRes[p]
            /\ calls[p] = <<"createForm">>
            /\ ~staged[p]
            /\ uploaded[p] = None
            /\ publishRes[p] = Nothing

C1_Witness ==
    \E p \in Procs : pc[p] = "done" /\ createRes[p] = <<404>> /\ ret[p] = <<404>>

\* C2: a createForm result of 409 is handled like 200: the sequence goes on to
\* stage the geodata, upload it and publish; unless a later step raises, the
\* call ends having done all three and returns the publishForm result.
C2_ConflictContinues ==
    \A p \in Procs :
        (createRes[p] = <<200>> \/ createRes[p] = <<409>>) =>
            /\ pc[p] \in {"stage", "attach", "cleanup", "publish", "done", "raised"}
            /\ pc[p] = "raised" => Len(calls[p]) >= 2
            /\ pc[p] = "done" =>
                  /\ calls[p] = <<"createForm", "uploadMedia", "publishForm">>
                  /\ staged[p]
                  /\ uploaded[p] = args[p].feature_geojson
                  /\ publishRes[p] # Nothing
                  /\ ret[p] = publishRes[p]

C2_Witness ==
    \E p \in Procs :
        /\ pc[p] = "done"
        /\ createRes[p] = <<409>>
        /\ ret[p] = <<200>>
        /\ calls[p] = <<"createForm", "uploadMedia", "publishForm">>

\* C3: once the geodata temp file has been staged, it no longer exists when the
\* call ends, whether uploadMedia returned or raised.
C3_CleanupAlways ==
    \A p \in Procs :
        (staged[p] /\ pc[p] \in {"done", "raised"}) => fs[PathOf(p)] = Absent

\* C12: when get_odk_form fails, create_odk_xform ends at once with the
\* HTTPException of status 500 "Connection failed to odk central": createForm,
\* the write of the temp file, uploadMedia and publishForm are not performed
\* and nothing is returned.
C12_ConnectFailureFatal ==
    \A p \in Procs :
        connected[p] = "failed" =>
            /\ pc[p] = "raised"
            /\ err[p] = HTTPException(500, <<"Connection failed to odk central">>)
            /\ calls[p] = <<>>
            /\ ~staged[p]
            /\ uploaded[p] = None
            /\ createRes[p] = Nothing
            /\ publishRes[p] = Nothing
            /\ ret[p] = Nothing

C12_Witness ==
    \E p \in Procs :
        connected[p] = "failed" /\ pc[p] = "raised" /\ err[p].status = 500

CallOrder == <<"createForm", "uploadMedia", "publishForm">>

\* C13: in every run the remote calls issued so far are an initial part of
\* createForm, uploadMedia, publishForm, so each is issued at most once and in
\* that order; uploadMedia is issued only after createForm returned 200 or 409,
\* publishForm only after uploadMedia returned; and a call that raised or
\* returned an error code has ended the run, with no call issued after it.
C13_OrderedAtMostOnce ==
    \A p \in Procs :
        /\ Len(calls[p]) <= Len(CallOrder)
        /\ calls[p] = SubSeq(CallOrder, 1, Len(calls[p]))
        /\ Len(calls[p]) >= 2 => (createRes[p] = <<200>> \/ createRes[p] = <<409>>)
        /\ Len(calls[p]) >= 3 => uploaded[p] # None
        /\ err[p] # NoErr => pc[p] = "raised"
        /\ (createRes[p] # Nothing /\ createRes[p][1] \notin {200, 409}) =>
              (pc[p] = "done" /\ calls[p] = <<"createForm">>)
        /\ publishRes[p] # Nothing => (pc[p] = "done" /\ calls[p] = CallOrder)

C13_Witness ==
    \E p \in Procs :
        /\ pc[p] = "done"
        /\ calls[p] = CallOrder
        /\ publishRes[p] = <<500>>
        /\ ret[p] = <<500>>

----------------------------------------------------------------------------
(* Properties of concurrent publish sequences, under SpecConcurrent *)

SameTarget(p, q) ==
    /\ args[p].odk_id = args[q].odk_id
    /\ args[p].xform_category = args[q].xform_category

\* C15: two publish sequences in flight that differ in odk_id or in
\* xform_category have different temp paths, and between the write of its temp
\* file and its unlink a sequence finds the file last written or deleted by a
\* call with its own odk_id and xform_category, never by one that differs in
\* either. (Two sequences with the same odk_id and xform_category do share the
\* path, with no lock: C15_Witness is the interleaving.)
C15_DistinctTargetsDistinctPaths ==
    /\ \A p, q \in Procs :
          (p # q /\ pc[p] # "idle" /\ pc[q] # "idle" /\ ~SameTarget(p, q)) =>
              PathOf(p) # PathOf(q)
    /\ \A p \in Procs :
          (staged[p] /\ pc[p] \in {"attach", "cleanup"}) =>
              fsBy[PathOf(p)] = TouchedBy(p)

\* the interleaving: p's uploadMedia read what q wrote over p's file, and q's
\* uploadMedia ran when p had already deleted the file
C15_Witness ==
    \E p, q \in Procs :
        /\ p # q
        /\ SameTarget(p, q)
        /\ PathOf(p) = PathOf(q)
        /\ uploaded[p] = args[q].feature_geojson
        /\ uploaded[p] # args[p].feature_geojson
        /\ staged[q]
        /\ pc[q] = "raised"
        /\ calls[q] = <<"createForm", "uploadMedia">>
        /\ fs[PathOf(q)] = Absent

----------------------------------------------------------------------------
(* Properties of the project operations, under SpecProject *)

\* C4: for every name, create_odk_project sends the prefix "FMTM " followed by
\* the name to the server, never the bare name.
C4_PrefixedName ==
    (proj.called /\ proj.connects) =>
        /\ proj.sent = Some(<<"FMTM ">> \o proj.name)
        /\ proj.sent # Some(proj.name)

C4_Witness ==
    proj.called /\ proj.connects /\ proj.name = <<"FMTM ", "x">>
        /\ proj.sent = Some(<<"FMTM ", "FMTM ", "x">>)

\* C5: when createProject returns a dict whose code is 401.2, create_odk_project
\* fails with the authentication failure "Could not authenticate to odk
\* central.", not with the generic "Error creating project on ODK Central".
C5_AuthFailureExplicit ==
    (proj.called /\ proj.response # Nothing
        /\ proj.response[1].type = "dict" /\ proj.response[1].code = "401.2") =>
        /\ proj.ret = Nothing
        /\ proj.err.status = 500
        /\ proj.err.detail = <<AuthFailedMsg>>

\* C6: delete_odk_project never raises: when connecting or the remote delete
\* fails it returns the soft-failure string, otherwise the remote result.
C6_DeleteNeverRaises ==
    del.called =>
        /\ ~del.raised
        /\ (~del.connects \/ del.raises) =>
              del.ret = Some("Could not delete project from central odk")
        /\ (del.connects /\ ~del.raises) => del.ret = Some(del.result)

C6_Witness ==
    /\ del.called
    /\ ~del.connects
    /\ del.ret = Some("Could not delete project from central odk")

----------------------------------------------------------------------------
(* Properties of list_submissions, under SpecSubmissions *)

\* the number of submissions of the first n users
RECURSIVE SubsBefore(_)
SubsBefore(n) ==
    IF n = 0 THEN 0
    ELSE SubsBefore(n - 1) + Len(subs.listSubmissions[subs.users[n].displayName])

\* C9: list_submissions returns the per-user submission lists one after the
\* other, users in the server's order and each list in the server's order;
\* nothing is dropped, so the length is the sum of the lists' lengths.
C9_Concatenation ==
    (subs.called /\ subs.connects) =>
        /\ subs.ret # Nothing
        /\ Len(subs.ret[1]) = SubsBefore(Len(subs.users))
        /\ \A i \in 1..Len(subs.users) :
              LET listed == subs.listSubmissions[subs.users[i].displayName] IN
              \A j \in 1..Len(listed) :
                  subs.ret[1][SubsBefore(i - 1) + j] = listed[j]

C9_Witness ==
    /\ subs.called /\ subs.connects
    /\ Len(subs.users) = 2
    /\ subs.users[1] = subs.users[2]
    /\ subs.ret = Some(<<"s2", "s1", "s2", "s1">>)

----------------------------------------------------------------------------
(* Properties of the form transformer, under SpecXform *)

\* the tree the last run parsed and the tree it wrote
TreeRead == xf.last.read.tree

TreeWritten == xf.last.file.tree

\* the run returned the output path
RunSucceeded == xf.runs > 0 /\ xf.last.ret # Nothing

\* child i of head/model in the parsed tree is an instance element
IsInstance(i) ==
    TreeRead.head /\ TreeRead.model /\ TreeRead.kids[i].tag = "instance"

\* the src of child i ended in ".geojson" before the run
HadGeojsonSrc(i) ==
    LET src == TreeRead.kids[i].src IN
    /\ src # Nothing
    /\ Len(src[1]) >= 2
    /\ src[1][Len(src[1]) - 1] = "."
    /\ src[1][Len(src[1])] = "geojson"

\* C7: after the run with category C, every instance under head/model whose src
\* ended in ".geojson" has the src jr://file/C.geojson, the first such instance
\* and every later one.
C7_AllGeojsonSrcRewritten ==
    RunSucceeded =>
        /\ Len(TreeWritten.kids) = Len(TreeRead.kids)
        /\ \A i \in DOMAIN TreeRead.kids :
              (IsInstance(i) /\ HadGeojsonSrc(i)) =>
                  TreeWritten.kids[i].src =
                      Some(<<"jr://file/">> \o xf.category \o <<".", "geojson">>)

C7_Witness ==
    /\ RunSucceeded
    /\ xf.runs = 1
    /\ xf.category = <<"roads">>
    /\ Len(TreeRead.kids) = 2
    /\ \A i \in {1, 2} :
          /\ TreeRead.kids[i].src = Some(<<"jr://file/", "x", ".", "geojson">>)
          /\ TreeWritten.kids[i].src = Some(<<"jr://file/", "roads", ".", "geojson">>)

\* C8: after the run every data element that carried an id has the id
\* xform_path.stem, and running again on the file the run wrote, with the same
\* xform_path and category, leaves the file as it is.
C8_IdRewrittenIdempotent ==
    /\ RunSucceeded =>
          \A i \in DOMAIN TreeRead.kids :
              IsInstance(i) =>
                  /\ Len(TreeWritten.kids[i].datas) = Len(TreeRead.kids[i].datas)
                  /\ \A k \in DOMAIN TreeRead.kids[i].datas :
                        TreeRead.kids[i].datas[k].id # Nothing =>
                            TreeWritten.kids[i].datas[k].id = Some(xf.stem)
    /\ (xf.runs = 2 /\ xf.byRun) =>
          /\ xf.last.ret # Nothing
          /\ xf.last.file = xf.last.before

C8_Witness ==
    /\ xf.runs = 2
    /\ xf.byRun
    /\ xf.stem = "form-42"
    /\ xf.input.kind = "xml"
    /\ xf.input.form = "etree"
    /\ xf.input # xf.last.file
    /\ xf.last.file = xf.last.before
    /\ Len(xf.input.tree.kids) = 1
    /\ xf.input.tree.kids[1].datas = <<[id |-> Some("data")], [id |-> Some("old")]>>
    /\ TreeWritten.kids[1].datas = <<[id |-> Some("form-42")], [id |-> Some("form-42")]>>

\* C10: the conversion is called exactly when the extension is not "xml"; when
\* it is called and raises or leaves an empty output file, the run fails with a
\* 400 error, the bindings are not rewritten and the output file is not written
\* back.
C10_ConversionGate ==
    xf.runs > 0 =>
        /\ xf.last.converted <=> xf.last.ext # "xml"
        /\ (xf.last.converted /\ xf.last.conv.kind = "raise") =>
              /\ xf.last.err.status = 400
              /\ xf.last.ret = Nothing
              /\ ~xf.last.rewrote /\ ~xf.last.wrote
              /\ xf.last.file = xf.last.before
        /\ (xf.last.converted /\ xf.last.conv.kind = "ok"
                /\ xf.last.conv.out.kind = "empty") =>
              /\ xf.last.err.status = 400
              /\ xf.last.ret = Nothing
              /\ ~xf.last.rewrote /\ ~xf.last.wrote
              /\ xf.last.file = EmptyFile

C10_Witness ==
    /\ xf.runs = 1
    /\ xf.last.ext = "xlsx"
    /\ xf.last.converted
    /\ xf.last.conv.out.kind = "empty"
    /\ xf.last.err.status = 400
    /\ xf.last.file = EmptyFile

----------------------------------------------------------------------------
(* Properties of convert_csv, under SpecCsv *)

\* how many times record k was written to an output
TimesWritten(out, k) == Len(SelectSeq(out, LAMBDA j : j = k))

\* C11: for every batch of records, each record already processed that has
\* tags and a position was written exactly once to the OSM output and exactly
\* once to the GeoJSON output, each processed record without tags was written
\* to neither, and the two outputs hold the same features in the same order.
C11_OneEntryPerRecord ==
    /\ csv.osm = csv.geojson
    /\ \A k \in 1..csv.i :
          /\ csv.batch[k] = "populated" =>
                /\ TimesWritten(csv.osm, k) = 1
                /\ TimesWritten(csv.geojson, k) = 1
          /\ csv.batch[k] \in {"untagged", "blank"} =>
                /\ TimesWritten(csv.osm, k) = 0
                /\ TimesWritten(csv.geojson, k) = 0

----------------------------------------------------------------------------
(* Properties of the callers of xls2xform_convert, under SpecConvert *)

\* C16: whenever generate_updated_xform calls xls2xform_convert it passes
\* validate=False, and whenever test_form_validity calls it, it passes
\* validate=True.
C16_ValidateFlags ==
    /\ xf.last.converted => xf.last.validate = Some(FALSE)
    /\ validity.called => validity.validate = Some(TRUE)

====
